---- MODULE Spec2Model ----
(***************************************************************************)
(* Model of weather.py: the refresh/render loop of a terminal weather      *)
(* dashboard (main), the fetch scheduler with its payload-derived refresh  *)
(* interval, the panel renderer (render, safe_addstr) and the metric       *)
(* helpers it calls.                                                       *)
(*                                                                         *)
(* Text is modelled as a sequence of Unicode code points, so that len(),   *)
(* ord() and the truncation done by addnstr are computed, not assumed.     *)
(***************************************************************************)
EXTENDS Integers, Sequences, FiniteSets, TLC

(***************************************************************************)
(* Bounds of the model.                                                    *)
(***************************************************************************)
\* wall-clock seconds (time.time()) at which the loop is entered
Epoch == 100
\* the loop is explored until the wall clock has advanced this far
MaxTime == 170
\* seconds taken by a slow iteration (a blocking fetch, a suspended process)
BigStep == 41
\* terminal heights 0..MaxRows and widths 0..MaxCols are explored by render
MaxRows == 31
MaxCols == 68
\* keys that can be waiting in the input queue
MaxKeys == 1
\* safe_addstr on its own: windows of 0..GridRows rows and 0..GridCols columns, rows
\* and columns from -1 to one past the window, texts of 0..MaxText characters
GridRows == 3
GridCols == 5
MaxText == 7

(***************************************************************************)
(* Configuration (weather.py, lines 29-42).                                *)
(***************************************************************************)
BASE_INTERVAL == 60

HEADER_ART ==
  << <<9608, 9608, 9559, 32, 32, 32, 32, 9608, 9608, 9559, 9608, 9608, 9608, 9608, 9608, 9608, 9608, 9559, 32, 9608, 9608, 9608, 9608, 9608, 9559, 32, 9608, 9608, 9608, 9608, 9608, 9608, 9608, 9608, 9559, 9608, 9608, 9559, 32, 32, 9608, 9608, 9559, 9608, 9608, 9608, 9608, 9608, 9608, 9608, 9559, 9608, 9608, 9608, 9608, 9608, 9608, 9559, 32>>,
     <<9608, 9608, 9553, 32, 32, 32, 32, 9608, 9608, 9553, 9608, 9608, 9556, 9552, 9552, 9552, 9552, 9565, 9608, 9608, 9556, 9552, 9552, 9608, 9608, 9559, 9562, 9552, 9552, 9608, 9608, 9556, 9552, 9552, 9565, 9608, 9608, 9553, 32, 32, 9608, 9608, 9553, 9608, 9608, 9556, 9552, 9552, 9552, 9552, 9565, 9608, 9608, 9556, 9552, 9552, 9608, 9608, 9559>>,
     <<9608, 9608, 9553, 32, 9608, 9559, 32, 9608, 9608, 9553, 9608, 9608, 9608, 9608, 9608, 9559, 32, 32, 9608, 9608, 9608, 9608, 9608, 9608, 9608, 9553, 32, 32, 32, 9608, 9608, 9553, 32, 32, 32, 9608, 9608, 9608, 9608, 9608, 9608, 9608, 9553, 9608, 9608, 9608, 9608, 9608, 9559, 32, 32, 9608, 9608, 9608, 9608, 9608, 9608, 9556, 9565>>,
     <<9608, 9608, 9553, 9608, 9608, 9608, 9559, 9608, 9608, 9553, 9608, 9608, 9556, 9552, 9552, 9565, 32, 32, 9608, 9608, 9556, 9552, 9552, 9608, 9608, 9553, 32, 32, 32, 9608, 9608, 9553, 32, 32, 32, 9608, 9608, 9556, 9552, 9552, 9608, 9608, 9553, 9608, 9608, 9556, 9552, 9552, 9565, 32, 32, 9608, 9608, 9556, 9552, 9552, 9608, 9608, 9559>>,
     <<9562, 9608, 9608, 9608, 9556, 9608, 9608, 9608, 9556, 9565, 9608, 9608, 9608, 9608, 9608, 9608, 9608, 9559, 9608, 9608, 9553, 32, 32, 9608, 9608, 9553, 32, 32, 32, 9608, 9608, 9553, 32, 32, 32, 9608, 9608, 9553, 32, 32, 9608, 9608, 9553, 9608, 9608, 9608, 9608, 9608, 9608, 9608, 9559, 9608, 9608, 9553, 32, 32, 9608, 9608, 9553>>,
     <<32, 9562, 9552, 9552, 9565, 9562, 9552, 9552, 9565, 32, 9562, 9552, 9552, 9552, 9552, 9552, 9552, 9565, 9562, 9552, 9565, 32, 32, 9562, 9552, 9565, 32, 32, 32, 9562, 9552, 9565, 32, 32, 32, 9562, 9552, 9565, 32, 32, 9562, 9552, 9565, 9562, 9552, 9552, 9552, 9552, 9552, 9552, 9565, 9562, 9552, 9565, 32, 32, 9562, 9552, 9565>> >>

(***************************************************************************)
(* String literals of the source, as code points.                          *)
(***************************************************************************)
S_DASHES == <<45, 45>>  \* '--'
S_EMPTY == <<>>  \* ''
S_ZERO_PRECIP == <<48, 46, 48>>  \* '0.0'
S_QMARK == <<63>>  \* '?'
S_NONE == <<78, 111, 110, 101>>  \* 'None'
STATION_DISPLAY == <<71, 73, 71, 32, 72, 65, 82, 66, 79, 82, 44, 32, 87, 65>>  \* 'GIG HARBOR, WA'
S_F == <<70>>  \* 'F'
S_PCT == <<37>>  \* '%'
S_FEELS == <<70, 32, 32, 40, 70, 101, 101, 108, 115, 32>>  \* 'F  (Feels '
S_FEELS_END == <<70, 41>>  \* 'F)'
S_MPH == <<32, 109, 112, 104>>  \* ' mph'
S_INHG == <<32, 105, 110, 72, 103>>  \* ' inHg'
S_MI == <<32, 109, 105>>  \* ' mi'
S_IN == <<32, 105, 110>>  \* ' in'
S_SP == <<32>>  \* ' '
S_COLON == <<58>>  \* ':'
S_TWO_SP == <<32, 32>>  \* '  '
L_CONDITION == <<67, 111, 110, 100, 105, 116, 105, 111, 110, 58>>  \* 'Condition:'
L_TEMP == <<84, 101, 109, 112, 58>>  \* 'Temp:'
L_HUMIDITY == <<72, 117, 109, 105, 100, 105, 116, 121, 58>>  \* 'Humidity:'
L_DEW == <<68, 101, 119, 32, 80, 111, 105, 110, 116, 58>>  \* 'Dew Point:'
L_WIND == <<87, 105, 110, 100, 58>>  \* 'Wind:'
L_PRESSURE == <<80, 114, 101, 115, 115, 117, 114, 101, 58>>  \* 'Pressure:'
L_VIS == <<86, 105, 115, 105, 98, 105, 108, 105, 116, 121, 58>>  \* 'Visibility:'
L_CLOUD == <<67, 108, 111, 117, 100, 32, 67, 111, 118, 101, 114, 58>>  \* 'Cloud Cover:'
L_UV == <<85, 86, 32, 73, 110, 100, 101, 120, 58>>  \* 'UV Index:'
L_PRECIP == <<80, 114, 101, 99, 105, 112, 58>>  \* 'Precip:'
S_SUNRISE == <<83, 117, 110, 114, 105, 115, 101, 58, 32>>  \* 'Sunrise: '
S_SUNSET == <<83, 117, 110, 115, 101, 116, 58, 32>>  \* 'Sunset: '
S_TO_SUNSET == <<32, 116, 111, 32, 115, 117, 110, 115, 101, 116>>  \* ' to sunset'
S_TO_SUNRISE == <<32, 116, 111, 32, 115, 117, 110, 114, 105, 115, 101>>  \* ' to sunrise'
S_FORECAST == <<70, 111, 114, 101, 99, 97, 115, 116, 58>>  \* 'Forecast:'
S_SYNC == <<83, 121, 110, 99, 58, 32>>  \* 'Sync: '
S_NEXT == <<32, 32, 78, 101, 120, 116, 58, 32, 126>>  \* '  Next: ~'
S_UP == <<85, 112, 58, 32>>  \* 'Up: '
S_H == <<104, 32>>  \* 'h '
S_M_CYCLES == <<109, 32, 32, 67, 121, 99, 108, 101, 115, 58, 32>>  \* 'm  Cycles: '
S_M == <<109>>  \* 'm'
S_AM == <<65, 77>>  \* 'AM'
S_PM == <<80, 77>>  \* 'PM'
S_DATE == <<77, 111, 110, 32, 78, 111, 118, 32, 48, 50, 32, 32>>  \* 'Mon Nov 02  '
S_VBAR == <<9553>>  \* '║'
S_TL == <<9556>>  \* '╔'
S_TR == <<9559>>  \* '╗'
S_ML == <<9568>>  \* '╠'
S_MR == <<9571>>  \* '╣'
S_BL == <<9562>>  \* '╚'
S_BR == <<9565>>  \* '╝'
S_HBAR == <<9552>>  \* '═'
J_OPEN == <<123>>  \* '{'
J_CLOSE == <<125>>  \* '}'
J_QUOTE == <<34>>  \* '"'
J_COLON == <<58, 32>>  \* ': '
J_COMMA == <<44, 32>>  \* ', '
J_NULL == <<110, 117, 108, 108>>  \* 'null'
J_DESC_OPEN == <<91, 123, 34, 118, 97, 108, 117, 101, 34, 58, 32, 34>>  \* '[{"value": "'
J_DESC_CLOSE == <<34, 125, 93>>  \* '"}]'
J_ELIST == <<91, 93>>  \* '[]'

(***************************************************************************)
(* Text helpers: what Python's str(), len(), "*" and format specs compute. *)
(***************************************************************************)
Max(a, b) == IF a >= b THEN a ELSE b

Min(a, b) == IF a <= b THEN a ELSE b

\* str(n) for a natural number n
RECURSIVE Digits(_)
Digits(n) == IF n < 10 THEN <<48 + n>> ELSE Digits(n \div 10) \o <<48 + (n % 10)>>

\* str(n) for an integer n
IntText(n) == IF n < 0 THEN <<45>> \o Digits(0 - n) ELSE Digits(n)

\* "{:02d}", "%H", "%M", "%S" for 0 <= n
Pad2(n) == IF n < 10 THEN <<48>> \o Digits(n) ELSE Digits(n)

\* s * n
Rep(s, n) == IF n <= 0 THEN <<>> ELSE [i \in 1..(n * Len(s)) |-> s[((i - 1) % Len(s)) + 1]]

\* sum(ord(c) for c in s)
RECURSIVE SumOrd(_)
SumOrd(s) ==
  IF s = <<>> THEN 0
  ELSE IF Len(s) = 1 THEN s[1]
  ELSE LET h == Len(s) \div 2 IN SumOrd(SubSeq(s, 1, h)) + SumOrd(SubSeq(s, h + 1, Len(s)))

IsDigit(c) == c >= 48 /\ c <= 57

RECURSIVE DigitsValue(_)
DigitsValue(s) == IF s = <<>> THEN 0 ELSE 10 * DigitsValue(SubSeq(s, 1, Len(s) - 1)) + (s[Len(s)] - 48)

AllDigits(s) == s # <<>> /\ \A i \in 1..Len(s) : IsDigit(s[i])

\* int(text): the texts of the model are digit strings or not numbers at all
ParseInt(s) == IF AllDigits(s) THEN [ok |-> TRUE, v |-> DigitsValue(s)] ELSE [ok |-> FALSE, v |-> 0]

\* float(text): the numeric texts of the model are optionally signed integers
ParseFloat(s) ==
  IF AllDigits(s) THEN [ok |-> TRUE, v |-> DigitsValue(s)]
  ELSE IF Len(s) >= 2 /\ s[1] = 45 /\ AllDigits(Tail(s)) THEN [ok |-> TRUE, v |-> 0 - DigitsValue(Tail(s))]
  ELSE [ok |-> FALSE, v |-> 0]

\* round(n / d) for d > 0
RoundDiv(n, d) == (2 * n + d) \div (2 * d)

(***************************************************************************)
(* The fetched document (resp.json()).  A JSON value of the current        *)
(* condition record is tagged: "str" (text s), "null", and for weatherDesc *)
(* "desc" ([{"value": s}]) or "elist" ([]).  A document is tagged by the   *)
(* kind of its top-level value; kind "none" is fetch_conditions' None.     *)
(***************************************************************************)
StrV(s) == [t |-> "str", s |-> s]

NullV == [t |-> "null", s |-> <<>>]

DescV(s) == [t |-> "desc", s |-> s]

EListV == [t |-> "elist", s |-> <<>>]

\* the keys of the current-condition record that the program reads, in document order
KeyOrder ==
  << "temp_F", "FeelsLikeF", "humidity", "windspeedMiles", "winddir16Point",
     "pressureInches", "visibilityMiles", "cloudcover", "uvIndex", "precipInches",
     "weatherDesc" >>

KeyText(k) ==
  CASE k = "temp_F" -> <<116, 101, 109, 112, 95, 70>>
    [] k = "FeelsLikeF" -> <<70, 101, 101, 108, 115, 76, 105, 107, 101, 70>>
    [] k = "humidity" -> <<104, 117, 109, 105, 100, 105, 116, 121>>
    [] k = "windspeedMiles" -> <<119, 105, 110, 100, 115, 112, 101, 101, 100, 77, 105, 108, 101, 115>>
    [] k = "winddir16Point" -> <<119, 105, 110, 100, 100, 105, 114, 49, 54, 80, 111, 105, 110, 116>>
    [] k = "pressureInches" -> <<112, 114, 101, 115, 115, 117, 114, 101, 73, 110, 99, 104, 101, 115>>
    [] k = "visibilityMiles" -> <<118, 105, 115, 105, 98, 105, 108, 105, 116, 121, 77, 105, 108, 101, 115>>
    [] k = "cloudcover" -> <<99, 108, 111, 117, 100, 99, 111, 118, 101, 114>>
    [] k = "uvIndex" -> <<117, 118, 73, 110, 100, 101, 120>>
    [] k = "precipInches" -> <<112, 114, 101, 99, 105, 112, 73, 110, 99, 104, 101, 115>>
    [] k = "weatherDesc" -> <<119, 101, 97, 116, 104, 101, 114, 68, 101, 115, 99>>

\* dict.get(key, default)
Get(rec, k, default) == IF k \in DOMAIN rec THEN rec[k] ELSE default

\* bool(data): None, {}, [], "" and 0 are falsy
Truthy(d) ==
  CASE d.kind = "none" -> FALSE
    [] d.kind = "dict" -> d.hasCC \/ d.hasWeather
    [] d.kind \in {"list", "str"} -> d.n > 0
    [] d.kind = "num" -> d.n # 0

\* data and "current_condition" in data: "true", "false", or "raise" (TypeError:
\* a number is not iterable).  The lists and strings of the model do not hold the key.
HasCurrentCondition(d) ==
  IF ~Truthy(d) THEN "false"
  ELSE CASE d.kind = "dict" -> IF d.hasCC THEN "true" ELSE "false"
         [] d.kind \in {"list", "str"} -> "false"
         [] d.kind = "num" -> "raise"

\* json.dumps of one JSON value
DumpValue(v) ==
  CASE v.t = "str" -> J_QUOTE \o v.s \o J_QUOTE
    [] v.t = "null" -> J_NULL
    [] v.t = "desc" -> J_DESC_OPEN \o v.s \o J_DESC_CLOSE
    [] v.t = "elist" -> J_ELIST

RECURSIVE DumpItems(_, _, _)
DumpItems(cc, i, first) ==
  IF i > Len(KeyOrder) THEN <<>>
  ELSE LET k == KeyOrder[i] IN
       IF k \in DOMAIN cc
       THEN (IF first THEN <<>> ELSE J_COMMA)
            \o J_QUOTE \o KeyText(k) \o J_QUOTE \o J_COLON \o DumpValue(cc[k])
            \o DumpItems(cc, i + 1, FALSE)
       ELSE DumpItems(cc, i + 1, first)

\* json.dumps(record): {"key": value, ...} with the default separators
json_dumps(cc) == J_OPEN \o DumpItems(cc, 1, TRUE) \o J_CLOSE

(***************************************************************************)
(* Next-interval derivation (main, lines 399-406).                         *)
(***************************************************************************)
\* max(38, min(next_interval, 82))
ClampInterval(v) == Max(38, Min(v, 82))

\* BASE_INTERVAL + (char_sum - 22) with char_sum = sum(ord(c) for c in raw) % 45
IntervalFromText(raw) == BASE_INTERVAL + ((SumOrd(raw) % 45) - 22)

\* variant of DeriveInterval: a failed fetch is retried at once (interval 0)
DeriveIntervalRetryNow(d) ==
  LET c == HasCurrentCondition(d) IN
  IF c = "raise" THEN [raised |-> TRUE, v |-> 0]
  ELSE IF c = "true"
       THEN IF d.cc = <<>>
            THEN [raised |-> TRUE, v |-> 0]
            ELSE [raised |-> FALSE, v |-> ClampInterval(IntervalFromText(json_dumps(d.cc[1])))]
       ELSE [raised |-> FALSE, v |-> 0]

\* the if/else of lines 400-406: the new interval, or the exception that leaves main
DeriveInterval(d) ==
  LET c == HasCurrentCondition(d) IN
  IF c = "raise" THEN [raised |-> TRUE, v |-> 0]
  ELSE IF c = "true"
       THEN IF d.cc = <<>>
            THEN [raised |-> TRUE, v |-> 0]
            ELSE [raised |-> FALSE, v |-> ClampInterval(IntervalFromText(json_dumps(d.cc[1])))]
       ELSE [raised |-> FALSE, v |-> BASE_INTERVAL]

(***************************************************************************)
(* Weather data helpers (lines 73-154).  The local clock datetime.now() is *)
(* a record [sec, sub]: whole seconds since local midnight, and whether    *)
(* the microsecond field is non-zero.                                      *)
(***************************************************************************)
\* math.log(h / 100.0) * 10^6, rounded, for h = 1..100
LN_PCT ==
  <<
     -4605170, -3912023, -3506558, -3218876, -2995732, -2813411, -2659260, -2525729, -2407946, -2302585,
     -2207275, -2120264, -2040221, -1966113, -1897120, -1832581, -1771957, -1714798, -1660731, -1609438,
     -1560648, -1514128, -1469676, -1427116, -1386294, -1347074, -1309333, -1272966, -1237874, -1203973,
     -1171183, -1139434, -1108663, -1078810, -1049822, -1021651, -994252, -967584, -941609, -916291,
     -891598, -867501, -843970, -820981, -798508, -776529, -755023, -733969, -713350, -693147,
     -673345, -653926, -634878, -616186, -597837, -579818, -562119, -544727, -527633, -510826,
     -494296, -478036, -462035, -446287, -430783, -415515, -400478, -385662, -371064, -356675,
     -342490, -328504, -314711, -301105, -287682, -274437, -261365, -248461, -235722, -223144,
     -210721, -198451, -186330, -174353, -162519, -150823, -139262, -127833, -116534, -105361,
     -94311, -83382, -72571, -61875, -51293, -40822, -30459, -20203, -10050, 0
  >>

\* floor(n * 10^k / d) by long division, for n >= 0 and d > 0 (32-bit safe)
RECURSIVE ScaledDiv(_, _, _)
ScaledDiv(n, d, k) ==
  IF k = 0 THEN [q |-> n \div d, r |-> n % d]
  ELSE LET p == ScaledDiv(n, d, k - 1) IN [q |-> p.q * 10 + ((p.r * 10) \div d), r |-> (p.r * 10) % d]

Abs(x) == IF x < 0 THEN 0 - x ELSE x

\* compute_dew_point: st = "raise" (TypeError, not caught by the except clause),
\* "none" (ValueError or ZeroDivisionError, caught) or "num" with the result in
\* tenths of a degree.  The arithmetic is the Magnus formula of lines 85-90 in
\* fixed point: with u = 5 * (temp_f - 32), tc = u / 9 and
\* (a * tc) / (b + tc) = 172.7 * u / (21393 + 10 * u); alpha is kept in 10^-6 units;
\* dp_c * 9 / 5 in tenths is 4278.6 * alpha / (a - alpha).
compute_dew_point(temp_f, humidity) ==
  IF temp_f.t # "str" THEN [st |-> "raise", tenths |-> 0]
  ELSE LET t == ParseFloat(temp_f.s) IN
  IF ~t.ok THEN [st |-> "none", tenths |-> 0]
  ELSE IF humidity.t # "str" THEN [st |-> "raise", tenths |-> 0]
  ELSE LET h == ParseFloat(humidity.s) IN
  IF ~h.ok THEN [st |-> "none", tenths |-> 0]
  ELSE LET u == 5 * (t.v - 32)
           den1 == 21393 + 10 * u
       IN
  IF den1 = 0 \/ h.v <= 0 THEN [st |-> "none", tenths |-> 0]
  ELSE LET x == ScaledDiv(Abs(u), Abs(den1), 8).q
           mag1 == 1727 * (x \div 1000) + (1727 * (x % 1000)) \div 1000
           alpha == (IF (u < 0) # (den1 < 0) THEN 0 - mag1 ELSE mag1) + LN_PCT[h.v]
           den2 == 17270000 - alpha
       IN
  IF den2 = 0 THEN [st |-> "none", tenths |-> 0]
  ELSE LET y == ScaledDiv(Abs(alpha), Abs(den2), 7).q
           milli == (42786 * (y \div 1000)) \div 100 + (42786 * (y % 1000)) \div 100000
           mag2 == RoundDiv(milli, 1000)
       IN [st |-> "num",
           tenths |-> 320 + (IF (alpha < 0) # (den2 < 0) THEN 0 - mag2 ELSE mag2)]

\* compute_dew_point(temp_f, humidity) > float(temp_f), for integer texts with temp_f
\* in -60..130 and humidity in 1..100.  Below 100 % the result is more than 0.15
\* degrees under the temperature.  At 100 % log(h / 100.0) is 0.0 and the formula is
\* the identity up to the rounding of the five double operations of lines 85-90;
\* the set holds the temperatures at which the rounded result exceeds temp_f
\* (55 gives 55.00000000000001).
DewAboveTemp(temp_f, humidity) ==
  LET dp == compute_dew_point(temp_f, humidity)
      above_at_100 == {-60, -59, -52, -44, -43, -31, -27, -18, -17, -16, -9, 9, 13, 16, 18,
                       55, 61, 62, 87, 92, 101, 102, 110, 112, 123, 128, 129}
  IN IF dp.st # "num" THEN FALSE
     ELSE IF ParseFloat(humidity.s).v = 100 THEN ParseFloat(temp_f.s).v \in above_at_100
     ELSE dp.tenths > 10 * ParseFloat(temp_f.s).v

\* f"{dew_point:.1f}F" if dew_point is not None else "--"
DewText(dp) ==
  IF dp.st # "num" THEN S_DASHES
  ELSE LET m == IF dp.tenths < 0 THEN 0 - dp.tenths ELSE dp.tenths IN
       (IF dp.tenths < 0 THEN <<45>> ELSE <<>>) \o Digits(m \div 10) \o <<46>> \o Digits(m % 10) \o S_F

\* parse_astronomy: data["weather"][0]["astronomy"][0], then two .get calls.
\* KeyError and IndexError give the placeholder pair; indexing a list or a string
\* with "weather" is a TypeError, which is not caught.
parse_astronomy(d) ==
  IF d.kind # "dict" THEN [st |-> "raise", sunrise |-> S_DASHES, sunset |-> S_DASHES]
  ELSE IF ~d.hasWeather \/ d.weather = <<>> THEN [st |-> "ok", sunrise |-> S_DASHES, sunset |-> S_DASHES]
  ELSE LET day == d.weather[1] IN
  IF ~day.hasAstro \/ day.astronomy = <<>> THEN [st |-> "ok", sunrise |-> S_DASHES, sunset |-> S_DASHES]
  ELSE LET astro == day.astronomy[1] IN
       [st |-> "ok", sunrise |-> Get(astro, "sunrise", S_DASHES), sunset |-> Get(astro, "sunset", S_DASHES)]

\* the hourly entries of the first two days, in list order (lines 108-111)
RECURSIVE HourlyEntries(_, _)
HourlyEntries(days, i) ==
  IF i > Min(2, Len(days)) THEN <<>>
  ELSE (IF days[i].hasHourly THEN days[i].hourly ELSE <<>>) \o HourlyEntries(days, i + 1)

\* int(e.get("time", "0")) // 100
HourVal(e) == LET p == ParseInt(Get(e, "time", <<48>>)) IN [ok |-> p.ok, v |-> p.v \div 100]

\* the loop of lines 113-120
RECURSIVE ScanUpcoming(_, _, _, _, _)
ScanUpcoming(entries, i, found_start, upcoming, now_hour) ==
  IF i > Len(entries) THEN upcoming
  ELSE LET found == found_start \/ HourVal(entries[i]).v >= now_hour IN
       ScanUpcoming(entries, i + 1, found,
                    IF found /\ Len(upcoming) < 3 THEN Append(upcoming, entries[i]) ELSE upcoming,
                    now_hour)

\* variant of LastThree: entries[:3]
FirstThree(entries) == SubSeq(entries, 1, Min(3, Len(entries)))

\* entries[-3:]
LastThree(entries) == SubSeq(entries, Max(1, Len(entries) - 2), Len(entries))

\* strftime("%-I%p") of hour h, minute 0
HourLabel(h) == Digits(IF h % 12 = 0 THEN 12 ELSE h % 12) \o (IF h < 12 THEN S_AM ELSE S_PM)

\* f"{label}:{temp}F"
HourlyText(e) == HourLabel(HourVal(e).v % 24) \o S_COLON \o Get(e, "tempF", S_QMARK) \o S_F

\* parse_hourly: every exception (data that has no .get, a time that is no
\* integer) gives []
parse_hourly(d, clock) ==
  IF d.kind # "dict" THEN <<>>
  ELSE LET entries == HourlyEntries(IF d.hasWeather THEN d.weather ELSE <<>>, 1) IN
  IF \E i \in 1..Len(entries) : ~HourVal(entries[i]).ok THEN <<>>
  ELSE LET scanned == ScanUpcoming(entries, 1, FALSE, <<>>, clock.sec \div 3600)
           upcoming == IF Len(scanned) < 3 THEN LastThree(entries) ELSE scanned
       IN [i \in 1..Len(upcoming) |-> HourlyText(upcoming[i])]

\* "  ".join(hourly)
RECURSIVE JoinTwoSp(_)
JoinTwoSp(texts) ==
  IF texts = <<>> THEN <<>>
  ELSE IF Len(texts) = 1 THEN texts[1]
  ELSE texts[1] \o S_TWO_SP \o JoinTwoSp(Tail(texts))

\* datetime.strptime(text, "%I:%M %p"): seconds since midnight of "H:MM AM" or
\* "HH:MM PM"; anything else is a ValueError
ParseClock12(s) ==
  LET n == Len(s)
      p == IF n >= 2 /\ s[2] = 58 THEN 2 ELSE 3
      shape == /\ n = p + 5
               /\ s[p] = 58
               /\ AllDigits(SubSeq(s, 1, p - 1))
               /\ AllDigits(SubSeq(s, p + 1, p + 2))
               /\ s[p + 3] = 32
               /\ s[p + 4] \in {65, 80}
               /\ s[p + 5] = 77
  IN IF ~shape THEN [ok |-> FALSE, sec |-> 0]
     ELSE LET h12 == DigitsValue(SubSeq(s, 1, p - 1))
              mm == DigitsValue(SubSeq(s, p + 1, p + 2))
          IN IF h12 < 1 \/ h12 > 12 \/ mm > 59 THEN [ok |-> FALSE, sec |-> 0]
             ELSE [ok |-> TRUE,
                   sec |-> ((h12 % 12) + (IF s[p + 4] = 80 THEN 12 ELSE 0)) * 3600 + mm * 60]

\* variant of time_until_event: an event that is past today is taken tomorrow
time_until_event_rollover(event_str, clock) ==
  LET ev == ParseClock12(event_str) IN
  IF ~ev.ok THEN [some |-> FALSE, text |-> <<>>]
  ELSE LET whole == ev.sec - clock.sec
           today == IF clock.sub THEN whole - 1 ELSE whole
           delta == IF today < 0 THEN today + 86400 ELSE today
       IN [some |-> TRUE,
           text |-> Digits(delta \div 3600) \o S_H \o Pad2((delta % 3600) \div 60) \o S_M]

\* time_until_event: the event anchored to today at second 0, microsecond 0,
\* minus now.  With a non-zero microsecond field the difference is a fraction
\* below the whole-second difference.
time_until_event(event_str, clock) ==
  LET ev == ParseClock12(event_str) IN
  IF ~ev.ok THEN [some |-> FALSE, text |-> <<>>]
  ELSE LET whole == ev.sec - clock.sec
           delta == IF clock.sub THEN whole - 1 ELSE whole
       IN IF delta < 0 THEN [some |-> FALSE, text |-> <<>>]
          ELSE [some |-> TRUE,
                text |-> Digits(delta \div 3600) \o S_H \o Pad2((delta % 3600) \div 60) \o S_M]

(***************************************************************************)
(* Rendering (lines 161-361).  A request is one call of safe_addstr; a     *)
(* write is one call of win.addnstr.  The fields sec (the panel section)   *)
(* and kind ("border", "art", "label" or "content") of a request name the  *)
(* call site; they are not read by the program.                            *)
(***************************************************************************)
\* win.addnstr(row, col, text, n): at most n characters of text, on one row
addnstr(q, n) == [row |-> q.row, col |-> q.col, text |-> SubSeq(q.text, 1, Min(Len(q.text), n)),
                  sec |-> q.sec, kind |-> q.kind]

\* variant of safe_addstr: the lower bounds 0 <= row, 0 <= col are not tested
safe_addstr_no_lower(max_y, max_x, q) ==
  IF q.row < max_y /\ q.col < max_x
  THEN LET available == max_x - q.col - 1 IN
       IF available > 0 THEN << addnstr(q, available) >> ELSE <<>>
  ELSE <<>>

\* variant of safe_addstr: the text may run to the last column
safe_addstr_to_edge(max_y, max_x, q) ==
  IF 0 <= q.row /\ q.row < max_y /\ 0 <= q.col /\ q.col < max_x
  THEN LET available == max_x - q.col IN
       IF available > 0 THEN << addnstr(q, available) >> ELSE <<>>
  ELSE <<>>

\* safe_addstr: the writes (none or one) that a request reaches the window with
safe_addstr(max_y, max_x, q) ==
  IF 0 <= q.row /\ q.row < max_y /\ 0 <= q.col /\ q.col < max_x
  THEN LET available == max_x - q.col - 1 IN
       IF available > 0 THEN << addnstr(q, available) >> ELSE <<>>
  ELSE <<>>

\* Panel geometry (lines 179-182)
Geometry(max_y, max_x) ==
  LET panel_width == Min(62, max_x - 2)
      left == Max(0, (max_x - panel_width) \div 2)
  IN [max_y |-> max_y, max_x |-> max_x, panel_width |-> panel_width, left |-> left,
      content_left |-> left + 3, value_left |-> left + 18]

\* divider = "═" * (panel_width - 2)
Divider(g) == Rep(S_HBAR, g.panel_width - 2)

\* now.strftime("%H:%M:%S")
ClockText(sec) == Pad2((sec \div 3600) % 24) \o S_COLON \o Pad2((sec % 3600) \div 60) \o S_COLON \o Pad2(sec % 60)

\* now.strftime("%a %b %d  %H:%M:%S"); the date part always has 12 characters
TimeText(clock) == S_DATE \o ClockText(clock.sec)

\* One call site of safe_addstr: everything but the row
Item(col, text, sec, kind) == [col |-> col, text |-> text, sec |-> sec, kind |-> kind]

\* the requests of a row "║ ... ║" with the given requests between the borders
BoxItems(g, inner, sec) ==
  << Item(g.left, S_VBAR, sec, "border") >> \o inner
     \o << Item(g.left + g.panel_width - 1, S_VBAR, sec, "border") >>

\* the request of a full-width border row
BorderItems(g, lch, rch, sec) == << Item(g.left, lch \o Divider(g) \o rch, sec, "border") >>

(***************************************************************************)
(* render is a straight-line pass over the panel with a row cursor.  It is *)
(* modelled as the list of its steps, run in order by RunSteps:            *)
(*   "draw"  - rows written at the cursor, which then advances; drawn      *)
(*             always, or only if row < max_y - reserve ("if row < ..."    *)
(*             in the source; "if row >= max_y - 1: break" inside the two  *)
(*             loops is the same test with reserve 1, since a loop that    *)
(*             does not draw does not move the cursor)                     *)
(*   "ret"   - "if row >= max_y - reserve: stdscr.refresh(); return"       *)
(*   "raise" - an exception that is not caught inside render               *)
(*   "sync"  - the call of _sync_display                                   *)
(***************************************************************************)
Draw(rows) == [op |-> "draw", always |-> TRUE, reserve |-> 0, rows |-> rows]

DrawIf(reserve, rows) == [op |-> "draw", always |-> FALSE, reserve |-> reserve, rows |-> rows]

ReturnIf(reserve) == [op |-> "ret", always |-> FALSE, reserve |-> reserve, rows |-> <<>>]

RaiseStep == [op |-> "raise", always |-> TRUE, reserve |-> 0, rows |-> <<>>]

SyncCall == [op |-> "sync", always |-> TRUE, reserve |-> 0, rows |-> <<>>]

\* lines 204-220: the banner (divider, art lines, divider) and the early return
HeaderSteps(g) ==
  << Draw(<< BorderItems(g, S_SP, <<>>, "banner") >>) >>
  \o [i \in 1..Len(HEADER_ART) |->
        DrawIf(1, << << Item(g.left + Max(0, (g.panel_width - Len(HEADER_ART[i])) \div 2),
                           HEADER_ART[i], "banner", "art") >> >>)]
  \o << Draw(<< BorderItems(g, S_SP, <<>>, "banner") >>), ReturnIf(2) >>

\* lines 222-235: box top, title row with the clock, divider
TitleSteps(g, clock) ==
  << Draw(<< BorderItems(g, S_TL, S_TR, "boxtop") >>),
     Draw(<< BoxItems(g, << Item(g.content_left, STATION_DISPLAY, "title", "content"),
                            Item(g.left + g.panel_width - Len(TimeText(clock)) - 2,
                                 TimeText(clock), "title", "content") >>, "title") >>),
     Draw(<< BorderItems(g, S_ML, S_MR, "titlediv") >>) >>

\* lines 238-240: cc, or the exception of data["current_condition"][0]
CurrentCondition(d) ==
  LET c == HasCurrentCondition(d) IN
  IF c = "raise" THEN [st |-> "raise", cc |-> <<>>]
  ELSE IF c = "true"
       THEN IF d.cc = <<>> THEN [st |-> "raise", cc |-> <<>>] ELSE [st |-> "ok", cc |-> d.cc[1]]
       ELSE [st |-> "ok", cc |-> <<>>]

\* a value inside an f-string, or str(value)
Fmt(v) == IF v.t = "null" THEN S_NONE ELSE v.s

\* desc_list[0].get("value", "--") if desc_list else "--"
ConditionText(desc_list) == IF desc_list.t = "desc" THEN desc_list.s ELSE S_DASHES

\* lines 242-270: the ten label/value pairs
Fields(cc) ==
  LET temp_f == Get(cc, "temp_F", StrV(S_DASHES))
      feels_f == Get(cc, "FeelsLikeF", StrV(S_DASHES))
      humidity == Get(cc, "humidity", StrV(S_DASHES))
      wind_speed == Get(cc, "windspeedMiles", StrV(S_DASHES))
      wind_dir == Get(cc, "winddir16Point", StrV(S_EMPTY))
      pressure == Get(cc, "pressureInches", StrV(S_DASHES))
      visibility == Get(cc, "visibilityMiles", StrV(S_DASHES))
      cloud == Get(cc, "cloudcover", StrV(S_DASHES))
      uv == Get(cc, "uvIndex", StrV(S_DASHES))
      precip == Get(cc, "precipInches", StrV(S_ZERO_PRECIP))
      desc_list == Get(cc, "weatherDesc", [t |-> "edesc", s |-> <<>>])
  IN << <<L_CONDITION, ConditionText(desc_list)>>,
        <<L_TEMP, Fmt(temp_f) \o S_FEELS \o Fmt(feels_f) \o S_FEELS_END>>,
        <<L_HUMIDITY, Fmt(humidity) \o S_PCT>>,
        <<L_DEW, DewText(compute_dew_point(temp_f, humidity))>>,
        <<L_WIND, Fmt(wind_dir) \o S_SP \o Fmt(wind_speed) \o S_MPH>>,
        <<L_PRESSURE, Fmt(pressure) \o S_INHG>>,
        <<L_VIS, Fmt(visibility) \o S_MI>>,
        <<L_CLOUD, Fmt(cloud) \o S_PCT>>,
        <<L_UV, Fmt(uv)>>,
        <<L_PRECIP, Fmt(precip) \o S_IN>> >>

\* lines 272-279: one row per field while row < max_y - 1
FieldSteps(g, fields) ==
  [i \in 1..Len(fields) |->
     DrawIf(1, << BoxItems(g, << Item(g.content_left, fields[i][1], "cond", "label"),
                                 Item(g.value_left, fields[i][2], "cond", "content") >>,
                           "cond") >>)]

\* lines 237-287: data extraction (which can raise), the conditions block, the
\* display sync when sync_needed, the early return
ConditionSteps(g, d, sync_needed) ==
  LET cur == CurrentCondition(d) IN
  IF cur.st = "raise" THEN << RaiseStep >>
  ELSE IF compute_dew_point(Get(cur.cc, "temp_F", StrV(S_DASHES)),
                            Get(cur.cc, "humidity", StrV(S_DASHES))).st = "raise"
  THEN << RaiseStep >>
  ELSE FieldSteps(g, Fields(cur.cc))
       \o (IF sync_needed THEN << SyncCall >> ELSE <<>>)
       \o << ReturnIf(1) >>

\* sunrise, sunset = parse_astronomy(data) if data else ("--", "--")
Astronomy(d) ==
  IF Truthy(d) THEN parse_astronomy(d)
  ELSE [st |-> "ok", sunrise |-> S_DASHES, sunset |-> S_DASHES]

\* variant of CountdownItems: the event labels are exchanged
CountdownItemsSwapped(g, sunrise, sunset, clock) ==
  LET to_sunset == time_until_event(sunset, clock)
      to_sunrise == time_until_event(sunrise, clock)
  IN IF to_sunset.some
     THEN << Item(g.content_left, to_sunset.text \o S_TO_SUNRISE, "astro", "content") >>
     ELSE IF to_sunrise.some
          THEN << Item(g.content_left, to_sunrise.text \o S_TO_SUNSET, "astro", "content") >>
          ELSE <<>>

\* lines 304-311: the countdown request, if any
CountdownItems(g, sunrise, sunset, clock) ==
  LET to_sunset == time_until_event(sunset, clock)
      to_sunrise == time_until_event(sunrise, clock)
  IN IF to_sunset.some
     THEN << Item(g.content_left, to_sunset.text \o S_TO_SUNSET, "astro", "content") >>
     ELSE IF to_sunrise.some
          THEN << Item(g.content_left, to_sunrise.text \o S_TO_SUNRISE, "astro", "content") >>
          ELSE <<>>

\* variant of AstronomySteps: without a countdown the second row is not drawn
AstronomyStepsSkipRow(g, d, clock) ==
  LET astro == Astronomy(d) IN
  << Draw(<< BorderItems(g, S_ML, S_MR, "div1") >>) >>
  \o (IF astro.st = "raise" THEN << RaiseStep >>
      ELSE << DrawIf(4, << BoxItems(g, << Item(g.content_left, S_SUNRISE \o astro.sunrise,
                                               "astro", "content"),
                                          Item(g.content_left + 24, S_SUNSET \o astro.sunset,
                                               "astro", "content") >>, "astro") >>
                           \o (IF CountdownItems(g, astro.sunrise, astro.sunset, clock) = <<>>
                               THEN <<>>
                               ELSE << BoxItems(g, CountdownItems(g, astro.sunrise, astro.sunset,
                                                                  clock), "astro") >>)),
              DrawIf(4, << BorderItems(g, S_ML, S_MR, "div2") >>) >>)

\* variant of AstronomySteps: the astronomy block reserves two rows, not four
AstronomyStepsTight(g, d, clock) ==
  LET astro == Astronomy(d) IN
  << Draw(<< BorderItems(g, S_ML, S_MR, "div1") >>) >>
  \o (IF astro.st = "raise" THEN << RaiseStep >>
      ELSE << DrawIf(2, << BoxItems(g, << Item(g.content_left, S_SUNRISE \o astro.sunrise,
                                               "astro", "content"),
                                          Item(g.content_left + 24, S_SUNSET \o astro.sunset,
                                               "astro", "content") >>, "astro"),
                           BoxItems(g, CountdownItems(g, astro.sunrise, astro.sunset, clock),
                                    "astro") >>),
              DrawIf(4, << BorderItems(g, S_ML, S_MR, "div2") >>) >>)

\* lines 289-318: divider, parse_astronomy (which can raise), the two rows of the
\* astronomy block under one test, divider
AstronomySteps(g, d, clock) ==
  LET astro == Astronomy(d) IN
  << Draw(<< BorderItems(g, S_ML, S_MR, "div1") >>) >>
  \o (IF astro.st = "raise" THEN << RaiseStep >>
      ELSE << DrawIf(4, << BoxItems(g, << Item(g.content_left, S_SUNRISE \o astro.sunrise,
                                               "astro", "content"),
                                          Item(g.content_left + 24, S_SUNSET \o astro.sunset,
                                               "astro", "content") >>, "astro"),
                           BoxItems(g, CountdownItems(g, astro.sunrise, astro.sunset, clock),
                                    "astro") >>),
              DrawIf(4, << BorderItems(g, S_ML, S_MR, "div2") >>) >>)

\* hourly = parse_hourly(data) if data else []
Hourly(d, clock) == IF Truthy(d) THEN parse_hourly(d, clock) ELSE <<>>

\* lines 320-333: the forecast row if there is a forecast, divider
ForecastSteps(g, d, clock) ==
  (IF Hourly(d, clock) # <<>>
   THEN << DrawIf(3, << BoxItems(g, << Item(g.content_left, S_FORECAST, "forecast", "label"),
                                       Item(g.content_left + 11, JoinTwoSp(Hourly(d, clock)),
                                            "forecast", "content") >>, "forecast") >>) >>
   ELSE <<>>)
  \o << DrawIf(3, << BorderItems(g, S_ML, S_MR, "div3") >>) >>

\* f"Sync: {now.strftime('%H:%M:%S')}  Next: ~{next_str}"
SyncText(clock, next_interval) ==
  S_SYNC \o ClockText(clock.sec) \o S_NEXT \o ClockText((clock.sec + next_interval) % 86400)

\* f"Up: {up_h}h {up_m:02d}m  Cycles: {cycle_count}"
UptimeText(elapsed, cycle_count) ==
  S_UP \o Digits(elapsed \div 3600) \o S_H \o Pad2((elapsed % 3600) \div 60)
       \o S_M_CYCLES \o Digits(cycle_count)

\* lines 335-359: the two status rows and the bottom border
FooterSteps(g, clock, elapsed, cycle_count, next_interval) ==
  << DrawIf(2, << BoxItems(g, << Item(g.content_left, SyncText(clock, next_interval),
                                      "sync", "content") >>, "sync") >>),
     DrawIf(1, << BoxItems(g, << Item(g.content_left, UptimeText(elapsed, cycle_count),
                                      "uptime", "content") >>, "uptime") >>),
     \* the bottom border is written at the cursor, which stays (lines 358-359)
     [op |-> "last", always |-> FALSE, reserve |-> 0,
      rows |-> << BorderItems(g, S_BL, S_BR, "bottom") >>] >>

\* the render pass so far: the row cursor, the requests made, st = "run", "ret"
\* (returned) or "raise" (an exception left render), and the _sync_display calls
RenderStart == [row |-> 0, reqs |-> <<>>, st |-> "run", sync |-> <<>>]

\* the requests of one row at the cursor
RowReqs(row, items) ==
  [i \in 1..Len(items) |->
     [row |-> row, col |-> items[i].col, text |-> items[i].text,
      sec |-> items[i].sec, kind |-> items[i].kind]]

\* the requests of consecutive rows from the cursor on ("row += 1" after each)
RECURSIVE RowsReqs(_, _, _)
RowsReqs(row, rows, j) ==
  IF j > Len(rows) THEN <<>> ELSE RowReqs(row, rows[j]) \o RowsReqs(row + 1, rows, j + 1)

\* one step of the pass
RunStep(s, r, g) ==
  CASE s.op = "draw" ->
         IF s.always \/ r.row < g.max_y - s.reserve
         THEN [r EXCEPT !.reqs = @ \o RowsReqs(r.row, s.rows, 1), !.row = @ + Len(s.rows)]
         ELSE r
    [] s.op = "last" ->
         IF r.row < g.max_y - s.reserve
         THEN [r EXCEPT !.reqs = @ \o RowsReqs(r.row, s.rows, 1)]
         ELSE r
    [] s.op = "ret" -> IF r.row >= g.max_y - s.reserve THEN [r EXCEPT !.st = "ret"] ELSE r
    [] s.op = "raise" -> [r EXCEPT !.st = "raise"]
    [] s.op = "sync" ->
         \* _sync_display(row % 5 - 2, value_left % 7 - 3), line 283
         [r EXCEPT !.sync = Append(@, [dx |-> (r.row % 5) - 2, dy |-> (g.value_left % 7) - 3])]

\* the steps in order, until one returns or raises
RECURSIVE RunSteps(_, _, _, _)
RunSteps(steps, i, r, g) ==
  IF i > Len(steps) \/ r.st # "run" THEN r
  ELSE RunSteps(steps, i + 1, RunStep(steps[i], r, g), g)

\* render(stdscr, data, start_time, cycle_count, next_interval, sync_needed), with
\* the window size, the local clock and now - start_time as further inputs
render(max_y, max_x, d, clock, elapsed, cycle_count, next_interval, sync_needed) ==
  LET g == Geometry(max_y, max_x)
      steps == HeaderSteps(g) \o TitleSteps(g, clock) \o ConditionSteps(g, d, sync_needed)
               \o AstronomySteps(g, d, clock) \o ForecastSteps(g, d, clock)
               \o FooterSteps(g, clock, elapsed, cycle_count, next_interval)
               \o << ReturnIf(0) >>
      r == RunSteps(steps, 1, RenderStart, g)
  IN IF r.st = "run" THEN [r EXCEPT !.st = "ret"] ELSE r

\* the writes that reach the window, in order
RECURSIVE Writes(_, _, _)
Writes(max_y, max_x, reqs) ==
  IF reqs = <<>> THEN <<>>
  ELSE IF Len(reqs) = 1 THEN safe_addstr(max_y, max_x, reqs[1])
  ELSE LET h == Len(reqs) \div 2 IN
       Writes(max_y, max_x, SubSeq(reqs, 1, h)) \o Writes(max_y, max_x, SubSeq(reqs, h + 1, Len(reqs)))

(***************************************************************************)
(* Documents the weather provider can return.                              *)
(***************************************************************************)
T2(a, b) == <<48 + a, 48 + b>>

BlankDoc(kind, n) ==
  [kind |-> kind, n |-> n, hasCC |-> FALSE, cc |-> <<>>, hasWeather |-> FALSE, weather |-> <<>>]

\* fetch_conditions returned None: network, timeout or parse failure
NoneDoc == BlankDoc("none", 0)

\* {}
EmptyDictDoc == BlankDoc("dict", 0)

\* a top-level list with one element, a top-level number
ListDoc == BlankDoc("list", 1)

NumDoc == BlankDoc("num", 5)

\* a current-condition record with all the fields render reads
FullCC(temp, desc) ==
  [temp_F |-> StrV(temp), FeelsLikeF |-> StrV(T2(6, 6)), humidity |-> StrV(T2(5, 5)),
   windspeedMiles |-> StrV(<<55>>), winddir16Point |-> StrV(<<78, 87>>),
   pressureInches |-> StrV(T2(3, 0)), visibilityMiles |-> StrV(<<57>>),
   cloudcover |-> StrV(T2(2, 5)), uvIndex |-> StrV(<<51>>),
   precipInches |-> StrV(S_ZERO_PRECIP), weatherDesc |-> DescV(desc)]

\* hourly points "0", "300", ..., "2100" of one day, tempF 50 + index
HourlyOfDay ==
  [i \in 1..8 |-> [time |-> (IF i = 1 THEN <<48>> ELSE Digits((i - 1) * 300)), tempF |-> T2(5, i)]]

\* sunrise "06:45 AM", sunset "08:10 PM"
SampleAstro ==
  [sunrise |-> <<48, 54, 58, 52, 53, 32, 65, 77>>, sunset |-> <<48, 56, 58, 49, 48, 32, 80, 77>>]

SampleDay == [hasAstro |-> TRUE, astronomy |-> <<SampleAstro>>, hasHourly |-> TRUE, hourly |-> HourlyOfDay]

\* a complete document: temp 68, "Sunny", two days of forecast
FullDoc ==
  [kind |-> "dict", n |-> 0, hasCC |-> TRUE, cc |-> <<FullCC(T2(6, 8), <<83, 117, 110, 110, 121>>)>>,
   hasWeather |-> TRUE, weather |-> <<SampleDay, SampleDay>>]

\* a complete document whose condition text has 50 characters
LongDoc == [FullDoc EXCEPT !.cc = <<FullCC(T2(7, 1), Rep(<<119>>, 50))>>]

\* {"current_condition": [{"temp_F": t, "humidity": "90"}]}, no forecast
SparseDoc(t) ==
  [BlankDoc("dict", 0) EXCEPT !.hasCC = TRUE,
                              !.cc = << [temp_F |-> StrV(t), humidity |-> StrV(T2(9, 0))] >>]

\* {"current_condition": []}
EmptyCCDoc == [BlankDoc("dict", 0) EXCEPT !.hasCC = TRUE]

\* {"current_condition": [{"temp_F": null, "humidity": "90"}]}
NullTempDoc ==
  [BlankDoc("dict", 0) EXCEPT !.hasCC = TRUE,
                              !.cc = << [temp_F |-> NullV, humidity |-> StrV(T2(9, 0))] >>]

\* what one call of fetch_conditions can return in the loop
FetchResults ==
  { NoneDoc, FullDoc, SparseDoc(T2(9, 9)), SparseDoc(T2(9, 8)),
    EmptyDictDoc, EmptyCCDoc, NullTempDoc, ListDoc, NumDoc }

(***************************************************************************)
(* The main loop (lines 368-420).                                          *)
(***************************************************************************)
VARIABLES
  pc,             \* "top", "render", "poll" of one iteration; "done"; "crashed"
  now,            \* time.time() as read at the top of the iteration
  start_time,     \* the clock at startup
  cycle_count, data, last_fetch, next_interval, sync_needed,
  tod0,           \* local time of day, in seconds, when the loop was entered
  frame,          \* the render pass of this iteration: <<>> before it, else one record
  keys,           \* keys typed and not yet read by getch
  good,           \* the document of the most recent fetch that did not fail
  attempts,       \* calls of fetch_conditions so far
  tick,           \* this iteration: fetch attempts, render passes, the gap of the fetch
  arg,            \* the arguments of a helper function called on its own
  res             \* the result of that call

\* no helper call is being looked at
NoCall == [fn |-> "none"]

vars == <<arg, res, pc, now, start_time, cycle_count, data, last_fetch, next_interval, sync_needed,
          tod0, frame, keys, good, attempts, tick>>

\* variant of IsQuitKey: Escape does not quit
IsQuitKeyNoEscape(k) == k \in {113, 81}

\* ord("q"), ord("Q"), 27 (line 417)
IsQuitKey(k) == k \in {113, 81, 27}

\* keys the user can type: q, Q, Escape, x
Keys == {113, 81, 27, 120}

\* variant of FetchDue: the fetch comes one second early
FetchDueEarly(t, last, interval) == t - last >= interval - 1

\* now - last_fetch >= next_interval (line 393)
FetchDue(t, last, interval) == t - last >= interval

\* seconds that can pass between two reads of the clock: a slow iteration, and
\* the iterations that end one second before and exactly when the interval elapses
Steps ==
  LET due == last_fetch + next_interval - now IN
  {s \in {BigStep, due - 1, due} : s >= 1 /\ now + s <= Epoch + MaxTime}

LocalClock(sub) == [sec |-> (tod0 + (now - Epoch)) % 86400, sub |-> sub]

\* the bookkeeping of an iteration in which nothing has happened yet
NoTick == [fetches |-> 0, renders |-> 0, gap |-> 0, inforce |-> 0]

Init ==
  /\ pc = "top"
  /\ now = Epoch
  /\ start_time = Epoch
  /\ cycle_count = 0
  /\ data = NoneDoc
  /\ last_fetch = 0
  /\ next_interval = BASE_INTERVAL
  /\ sync_needed = FALSE
  /\ tod0 = 54000
  /\ frame = <<>>
  /\ keys = <<>>
  /\ good = NoneDoc
  /\ attempts = 0
  /\ tick = NoTick
  /\ arg = NoCall
  /\ res = NoCall

\* lines 389-393 when the interval has not elapsed: nothing but sync_needed = False
TickIdle(dt) ==
  /\ pc = "top"
  /\ ~FetchDue(now + dt, last_fetch, next_interval)
  /\ now' = now + dt
  /\ sync_needed' = FALSE
  /\ pc' = "render"
  /\ frame' = <<>>
  /\ tick' = NoTick
  /\ UNCHANGED <<arg, res, start_time, cycle_count, data, last_fetch, next_interval, tod0, keys, good, attempts>>

\* variant of TickFetch: only a fetch that returned a document is counted
TickFetchCountSuccess(dt, d) ==
  /\ pc = "top"
  /\ FetchDue(now + dt, last_fetch, next_interval)
  /\ now' = now + dt
  /\ data' = d
  /\ last_fetch' = now'
  /\ cycle_count' = IF d.kind = "none" THEN cycle_count ELSE cycle_count + 1
  /\ sync_needed' = TRUE
  /\ LET r == DeriveInterval(d) IN
       IF r.raised THEN pc' = "crashed" /\ UNCHANGED next_interval
       ELSE pc' = "render" /\ next_interval' = r.v
  /\ frame' = <<>>
  /\ good' = IF d.kind = "none" THEN good ELSE d
  /\ attempts' = attempts + 1
  /\ tick' = [fetches |-> 1, renders |-> 0, gap |-> now' - last_fetch, inforce |-> next_interval]
  /\ UNCHANGED <<arg, res, start_time, tod0, keys>>

\* lines 389-406 when the interval has elapsed: one fetch, then the new interval
TickFetch(dt, d) ==
  /\ pc = "top"
  /\ FetchDue(now + dt, last_fetch, next_interval)
  /\ now' = now + dt
  /\ data' = d
  /\ last_fetch' = now'
  /\ cycle_count' = cycle_count + 1
  /\ sync_needed' = TRUE
  /\ LET r == DeriveInterval(d) IN
       IF r.raised THEN pc' = "crashed" /\ UNCHANGED next_interval
       ELSE pc' = "render" /\ next_interval' = r.v
  /\ frame' = <<>>
  /\ good' = IF d.kind = "none" THEN good ELSE d
  /\ attempts' = attempts + 1
  /\ tick' = [fetches |-> 1, renders |-> 0, gap |-> now' - last_fetch, inforce |-> next_interval]
  /\ UNCHANGED <<arg, res, start_time, tod0, keys>>

\* lines 408-412: one render pass on a window of max_y rows and max_x columns; an
\* exception other than curses.error leaves main
Render(max_y, max_x, sub) ==
  /\ pc = "render"
  /\ LET r == render(max_y, max_x, data, LocalClock(sub), now - start_time,
                     cycle_count, next_interval, sync_needed)
     IN /\ frame' = << [max_y |-> max_y, max_x |-> max_x, st |-> r.st, row |-> r.row,
                        reqs |-> r.reqs, sync |-> r.sync] >>
        /\ pc' = IF r.st = "raise" THEN "crashed" ELSE "poll"
  /\ tick' = [tick EXCEPT !.renders = @ + 1]
  /\ UNCHANGED <<arg, res, now, start_time, cycle_count, data, last_fetch, next_interval, sync_needed,
                 tod0, keys, good, attempts>>

\* lines 414-420: getch returns the oldest waiting key, or -1 after the timeout
Poll ==
  /\ pc = "poll"
  /\ LET key == IF keys = <<>> THEN -1 ELSE Head(keys) IN
       pc' = IF IsQuitKey(key) THEN "done" ELSE "top"
  /\ keys' = IF keys = <<>> THEN keys ELSE Tail(keys)
  /\ frame' = <<>>
  /\ tick' = NoTick
  /\ UNCHANGED <<arg, res, now, start_time, cycle_count, data, last_fetch, next_interval, sync_needed,
                 tod0, good, attempts>>

\* the user types a key; a key typed earlier in the iteration waits in the queue
\* until getch is called all the same
KeyPress(k) ==
  /\ pc = "poll"
  /\ Len(keys) < MaxKeys
  /\ keys' = Append(keys, k)
  /\ UNCHANGED <<arg, res, pc, now, start_time, cycle_count, data, last_fetch, next_interval, sync_needed,
                 tod0, frame, good, attempts, tick>>

\* window sizes the loop is run with: too small for the banner, too short for the
\* astronomy block, and large enough for the whole panel
LoopSizes == { <<3, 20>>, <<10, 66>>, <<11, 66>>, <<24, 66>>, <<MaxRows, MaxCols>> }

\* the microsecond field of datetime.now() in the loop's render passes
LoopSub == {TRUE}

Next ==
  \/ \E dt \in Steps : TickIdle(dt)
  \/ \E dt \in Steps, d \in FetchResults : TickFetch(dt, d)
  \/ \E size \in LoopSizes, sub \in LoopSub : Render(size[1], size[2], sub)
  \/ Poll
  \/ \E k \in Keys : KeyPress(k)

Spec == Init /\ [][Next]_vars

(***************************************************************************)
(* The render pass alone, on every window size: the loop has made its      *)
(* first fetch, which returned d, and is about to call render.             *)
(***************************************************************************)
\* documents that reach render: no data, a complete document with a long
\* condition text, a document without forecast, a top-level list
RenderDocs == { NoneDoc, LongDoc, SparseDoc(T2(9, 9)), ListDoc }

\* render reads max_y only for the row cursor and max_x only for the columns:
\* every height is run with a few widths, and every width with a few heights
RenderSizes ==
  ((0..MaxRows) \X {0, 1, 2, 20, 66, MaxCols}) \cup ({0, 1, 2, 3, 12, 24, MaxRows} \X (0..MaxCols))

InitRender ==
  /\ pc = "render"
  /\ now = Epoch + BigStep
  /\ start_time = Epoch
  /\ cycle_count = 1
  /\ data \in RenderDocs
  /\ last_fetch = now
  /\ next_interval = DeriveInterval(data).v
  /\ sync_needed = TRUE
  /\ tod0 = 54000
  /\ frame = <<>>
  /\ keys = <<>>
  /\ good = data
  /\ attempts = 1
  /\ tick = [fetches |-> 1, renders |-> 0, gap |-> now, inforce |-> BASE_INTERVAL]
  /\ arg = NoCall
  /\ res = NoCall

NextRender == \E size \in RenderSizes, sub \in BOOLEAN : Render(size[1], size[2], sub)

SpecRender == InitRender /\ [][NextRender]_vars

(***************************************************************************)
(* The helper functions called on their own: the arguments are drawn in    *)
(* the initial state, one step makes the call and records the result.      *)
(***************************************************************************)
\* the loop variables while a helper is looked at on its own
LoopAtRest ==
  /\ pc = "top" /\ now = Epoch /\ start_time = Epoch /\ cycle_count = 0
  /\ data = NoneDoc /\ last_fetch = 0 /\ next_interval = BASE_INTERVAL
  /\ sync_needed = FALSE /\ tod0 = 54000 /\ frame = <<>> /\ keys = <<>>
  /\ good = NoneDoc /\ attempts = 0 /\ tick = NoTick

loop_vars == <<pc, now, start_time, cycle_count, data, last_fetch, next_interval, sync_needed,
               tod0, frame, keys, good, attempts, tick>>

\* an hourly point with the given time and tempF texts
Point(time, temp) == [time |-> time, tempF |-> temp]

\* a forecast day holding the given hourly points
DayOf(points) == [hasAstro |-> TRUE, astronomy |-> <<SampleAstro>>, hasHourly |-> TRUE, hourly |-> points]

\* a document whose "weather" list holds the given days
DocOfDays(days) == [BlankDoc("dict", 0) EXCEPT !.hasWeather = TRUE, !.weather = days]

\* documents given to parse_hourly: two full days; one full day; four points over two
\* days; three points over two days; two points; three days of which the third holds
\* the third point; points out of time order; a point without "time" and "tempF";
\* a point whose time is no integer
HourlyDocs ==
  { FullDoc,
    DocOfDays(<< DayOf(HourlyOfDay) >>),
    DocOfDays(<< DayOf(<< Point(Digits(900), T2(6, 1)), Point(Digits(2100), T2(5, 5)) >>),
                 DayOf(<< Point(Digits(300), T2(4, 9)), Point(Digits(1500), T2(6, 3)) >>) >>),
    DocOfDays(<< DayOf(<< Point(Digits(1200), T2(6, 0)) >>),
                 DayOf(<< Point(Digits(300), T2(4, 8)), Point(Digits(2100), T2(5, 2)) >>) >>),
    DocOfDays(<< DayOf(<< Point(Digits(900), T2(6, 1)) >>), DayOf(<< Point(Digits(300), T2(4, 9)) >>) >>),
    DocOfDays(<< DayOf(<< Point(Digits(900), T2(6, 1)) >>), DayOf(<< Point(Digits(300), T2(4, 9)) >>),
                 DayOf(HourlyOfDay) >>),
    DocOfDays(<< DayOf(<< Point(Digits(2100), T2(5, 5)), Point(<<48>>, T2(5, 0)),
                          Point(Digits(1200), T2(6, 0)), Point(Digits(300), T2(4, 9)) >>) >>),
    DocOfDays(<< DayOf(<< [tempF |-> T2(4, 4)], [time |-> Digits(1500)], Point(Digits(2100), T2(5, 5)) >>) >>),
    DocOfDays(<< DayOf(<< Point(Digits(900), T2(6, 1)), Point(<<97, 98, 99>>, T2(6, 2)),
                          Point(Digits(2100), T2(5, 5)) >>) >>) }

\* parse_hourly(data) at some hour of the day
CallHourly ==
  /\ arg.fn = "parse_hourly" /\ res = NoCall
  /\ res' = [fn |-> "parse_hourly",
             out |-> parse_hourly(arg.doc, [sec |-> arg.hour * 3600 + 59, sub |-> TRUE])]
  /\ UNCHANGED <<arg, loop_vars>>

\* a document whose first day holds the given "astronomy" list
AstroDoc(astronomy) ==
  DocOfDays(<< [hasAstro |-> TRUE, astronomy |-> astronomy, hasHourly |-> FALSE, hourly |-> <<>>] >>)

\* documents given to parse_astronomy: complete; sunrise only; sunset only; an empty
\* astronomy record; an empty astronomy list; a day without "astronomy"; an empty
\* "weather" list; no "weather"; no document; a top-level list
AstroDocs ==
  { FullDoc,
    AstroDoc(<< [sunrise |-> SampleAstro.sunrise] >>),
    AstroDoc(<< [sunset |-> SampleAstro.sunset] >>),
    AstroDoc(<< [other |-> <<>>] >>),
    AstroDoc(<<>>),
    DocOfDays(<< [hasAstro |-> FALSE, astronomy |-> <<>>, hasHourly |-> TRUE, hourly |-> HourlyOfDay] >>),
    DocOfDays(<<>>),
    SparseDoc(T2(9, 9)),
    NoneDoc,
    ListDoc }

\* parse_astronomy(data) if data else ("--", "--")  (line 294)
CallAstronomy ==
  /\ arg.fn = "parse_astronomy" /\ res = NoCall
  /\ res' = [fn |-> "parse_astronomy", out |-> Astronomy(arg.doc)]
  /\ UNCHANGED <<arg, loop_vars>>

\* event texts given to time_until_event: "09:00 AM", "11:00 PM", "08:10 PM", "06:45 AM", "12:00 AM", "12:30 PM", "7:05 AM", "03:00 PM", "--", "", "13:00 PM", "noon"
EventTexts ==
  { <<48, 57, 58, 48, 48, 32, 65, 77>>,
    <<49, 49, 58, 48, 48, 32, 80, 77>>,
    <<48, 56, 58, 49, 48, 32, 80, 77>>,
    <<48, 54, 58, 52, 53, 32, 65, 77>>,
    <<49, 50, 58, 48, 48, 32, 65, 77>>,
    <<49, 50, 58, 51, 48, 32, 80, 77>>,
    <<55, 58, 48, 53, 32, 65, 77>>,
    <<48, 51, 58, 48, 48, 32, 80, 77>>,
    <<45, 45>>,
    <<>>,
    <<49, 51, 58, 48, 48, 32, 80, 77>>,
    <<110, 111, 111, 110>> }

\* time_until_event(event_str) at the local time arg.sec (seconds since midnight),
\* arg.sub telling whether datetime.now() has a non-zero microsecond field
CallTimeUntil ==
  /\ arg.fn = "time_until_event" /\ res = NoCall
  /\ res' = [fn |-> "time_until_event",
             out |-> time_until_event(arg.event, [sec |-> arg.sec, sub |-> arg.sub])]
  /\ UNCHANGED <<arg, loop_vars>>

\* render on a window of arg.max_y rows and 66 columns at the local time arg.sec,
\* after one fetch
CallRender ==
  /\ arg.fn = "render" /\ res = NoCall
  /\ res' = [fn |-> "render",
             out |-> render(arg.max_y, 66, arg.doc, [sec |-> arg.sec, sub |-> arg.sub],
                            0, 1, DeriveInterval(arg.doc).v, TRUE)]
  /\ UNCHANGED <<arg, loop_vars>>

\* compute_dew_point(temp_f, humidity), and the comparison of its result with temp_f
CallDewPoint ==
  /\ arg.fn = "compute_dew_point" /\ res = NoCall
  /\ res' = [fn |-> "compute_dew_point",
             out |-> compute_dew_point(arg.temp_f, arg.humidity),
             above |-> DewAboveTemp(arg.temp_f, arg.humidity)]
  /\ UNCHANGED <<arg, loop_vars>>

\* safe_addstr(win, row, col, text) on a window of arg.max_y rows and arg.max_x
\* columns; the text is "abc..." of arg.len characters
CallSafeAddstr ==
  /\ arg.fn = "safe_addstr" /\ res = NoCall
  /\ res' = [fn |-> "safe_addstr",
             out |-> safe_addstr(arg.max_y, arg.max_x,
                                 [row |-> arg.row, col |-> arg.col,
                                  text |-> [i \in 1..arg.len |-> 96 + i],
                                  sec |-> "cond", kind |-> "content"])]
  /\ UNCHANGED <<arg, loop_vars>>

\* the calls looked at: the function and its arguments
HelperArgs ==
  [fn : {"parse_hourly"}, doc : HourlyDocs, hour : 0..23]
    \cup [fn : {"parse_astronomy"}, doc : AstroDocs]
    \cup [fn : {"time_until_event"}, event : EventTexts,
          sec : {0, 32399, 32400, 32401, 36000, 54000, 54030, 72600, 82800, 86399},
          sub : BOOLEAN]
    \cup [fn : {"compute_dew_point"},
          temp_f : {StrV(IntText(t)) : t \in {-60, -40, -17, 0, 9, 32, 50, 55, 68, 72, 87, 99, 100, 130}}
                     \cup {StrV(S_DASHES), StrV(<<97, 98, 99>>), StrV(S_EMPTY), NullV},
          humidity : {StrV(IntText(h)) : h \in 0..100}
                       \cup {StrV(IntText(0 - 5)), StrV(S_DASHES), NullV}]
    \cup [fn : {"safe_addstr"}, max_y : 0..GridRows, max_x : 0..GridCols,
          row : (0 - 1)..(GridRows + 1), col : (0 - 1)..(GridCols + 1), len : 0..MaxText]
    \cup [fn : {"render"}, doc : {FullDoc, AstroDoc(<< [sunrise |-> SampleAstro.sunrise] >>)},
          max_y : {26, 27, 30},
          sec : {0, 54000, 54001, 54059, 72600, 72601, 82800, 86399}, sub : BOOLEAN]

InitHelpers ==
  /\ LoopAtRest
  /\ arg \in HelperArgs
  /\ res = NoCall

NextHelpers ==
  \/ CallHourly
  \/ CallAstronomy
  \/ CallTimeUntil
  \/ CallRender
  \/ CallDewPoint
  \/ CallSafeAddstr

SpecHelpers == InitHelpers /\ [][NextHelpers]_vars

(***************************************************************************)
(* Properties.                                                             *)
(***************************************************************************)
\* the render pass of this iteration has been made
Rendered == frame # <<>>

\* the writes that reached the window in this iteration's render pass
FrameWrites == Writes(frame[1].max_y, frame[1].max_x, frame[1].reqs)

\* render emitted a row of section sec
Drawn(sec) == \E i \in 1..Len(frame[1].reqs) : frame[1].reqs[i].sec = sec

\* the text holds the placeholder "--"
HasDashes(s) == \E i \in 1..(Len(s) - 1) : s[i] = 45 /\ s[i + 1] = 45

\* C1: after any fetch attempt the snapshot held by the loop is the document of the
\* most recent fetch that did not fail (and absent only if none ever succeeded)
C1_FailedFetchKeepsSnapshot == pc \in {"render", "poll"} => data = good

\* C2: the loop never ends other than by the quit key: no fetch outcome and no
\* exception of the render pass takes it out of main
C2_LoopEndsOnlyOnQuit == pc # "crashed"

\* C3: the next-refresh interval is always within [38, 82], and it is exactly the
\* base interval in an iteration whose fetch attempt failed
C3_IntervalInRange ==
  /\ next_interval >= 38 /\ next_interval <= 82
  /\ (tick.fetches = 1 /\ data.kind = "none") => next_interval = BASE_INTERVAL

\* a fetch fails while an interval other than the base interval was in force
C3_Witness ==
  /\ pc = "render" /\ tick.fetches = 1 /\ data.kind = "none"
  /\ tick.inforce = 38 /\ next_interval = BASE_INTERVAL

\* C4: in each iteration the provider is called if and only if
\* now - last_fetch >= next_interval, with the values left by the previous attempt,
\* and at most once; so two consecutive attempts are at least the interval apart
C4_FetchIffDue ==
  [][(pc = "top" /\ pc' # "top") =>
       /\ attempts' \in {attempts, attempts + 1}
       /\ (attempts' = attempts + 1) <=> (now' - last_fetch >= next_interval)
       /\ tick'.fetches = attempts' - attempts]_vars

\* a failed fetch is retried, exactly one base interval after it
C4_Witness ==
  /\ pc = "render" /\ tick.fetches = 1 /\ attempts >= 2
  /\ good.kind = "none" /\ tick.gap = BASE_INTERVAL

\* C5: the cycle counter equals the number of fetch attempts; an attempt adds one
\* and sets last_fetch to this iteration's now; an iteration without an attempt
\* leaves cycle counter, last_fetch, interval and snapshot unchanged
C5_CycleCountsAttempts ==
  /\ [](cycle_count = attempts)
  /\ [][(pc = "top" /\ pc' # "top") =>
          IF attempts' = attempts + 1
          THEN cycle_count' = cycle_count + 1 /\ last_fetch' = now'
          ELSE UNCHANGED <<cycle_count, last_fetch, next_interval, data>>]_vars

\* an iteration without a fetch, after two failed attempts were counted
C5_Witness ==
  pc = "render" /\ tick.fetches = 0 /\ cycle_count = 2 /\ good.kind = "none"

\* C6: every iteration makes exactly one complete render pass before its key poll
\* or its end, and with no snapshot that pass shows "--" in every value of the
\* conditions block and for sunrise and sunset
C6_RenderEveryIteration ==
  /\ pc \in {"poll", "crashed"} => tick.renders = 1 /\ Rendered /\ frame[1].st = "ret"
  /\ (pc = "poll" /\ data.kind = "none") =>
       \A i \in 1..Len(frame[1].reqs) :
         LET q == frame[1].reqs[i] IN
         (q.kind = "content" /\ q.sec = "cond") \/ (q.kind = "content" /\ q.sec = "astro")
           => HasDashes(q.text)

HasForecast == Hourly(data, LocalClock(FALSE)) # <<>>

\* the title bar and the ten conditions rows are emitted, and emitted before every
\* row of the sections below them
TitleAndConditionsFirst ==
  LET reqs == frame[1].reqs
      lower == {"astro", "forecast", "sync", "uptime"}
  IN /\ \A i, j \in 1..Len(reqs) :
          (reqs[i].sec \in {"title", "cond"} /\ reqs[j].sec \in lower) => i < j
     /\ (\E j \in 1..Len(reqs) : reqs[j].sec \in lower) =>
          /\ Drawn("title")
          /\ Cardinality({i \in 1..Len(reqs) : reqs[i].sec = "cond" /\ reqs[i].kind = "label"}) = 10

\* C8 (as stated): sections are dropped from the bottom first: the forecast row or a
\* status-footer row is emitted only if the astronomy block is, no section is
\* omitted while one below it is drawn, and title and conditions come first
C8_DropsFromBottom ==
  (Rendered /\ HasForecast) =>
    /\ (Drawn("forecast") \/ Drawn("sync") \/ Drawn("uptime")) => Drawn("astro")
    /\ Drawn("uptime") => Drawn("sync")
    /\ Drawn("sync") => Drawn("forecast")
    /\ TitleAndConditionsFirst

\* C8 (amended): the status footer is kept and the sections above it are dropped
\* first: the astronomy block or the forecast row is emitted only if both
\* status-footer rows are, the sync row only if the uptime row is, and title and
\* conditions come first
C8_FooterKept ==
  (Rendered /\ HasForecast) =>
    /\ (Drawn("astro") \/ Drawn("forecast")) => (Drawn("sync") /\ Drawn("uptime"))
    /\ Drawn("sync") => Drawn("uptime")
    /\ TitleAndConditionsFirst

\* the astronomy block and both footer rows are drawn, the forecast row is left out
C8_Witness ==
  /\ Rendered /\ HasForecast
  /\ Drawn("astro") /\ ~Drawn("forecast") /\ Drawn("sync") /\ Drawn("uptime")

C10_ClippedAtPanel ==
  Rendered =>
    LET g == Geometry(frame[1].max_y, frame[1].max_x) IN
    \A i \in 1..Len(FrameWrites) :
      LET w == FrameWrites[i] IN
      (w.kind = "content" /\ w.text # <<>>) =>
        /\ w.col + Len(w.text) - 1 <= g.left + g.panel_width - 1
        /\ w.col + Len(w.text) - 1 < frame[1].max_x

\* the hourly points parse_hourly looks at: those of the first two days, in list order
PointsOf(doc) ==
  LET days == doc.weather
      first == IF Len(days) >= 1 THEN days[1].hourly ELSE <<>>
      second == IF Len(days) >= 2 THEN days[2].hourly ELSE <<>>
  IN first \o second

\* the hour of day of a point whose time is an integer text
HourOfPoint(e) == (IF "time" \in DOMAIN e THEN DigitsValue(e.time) ELSE 0) \div 100

\* every point has an hour of day
TimesAreIntegers(points) ==
  \A i \in 1..Len(points) : "time" \in DOMAIN points[i] => AllDigits(points[i].time)

\* the window the selection policy asks for, as indices into the points
WindowOf(points, hour) ==
  LET n == Len(points)
      from == {i \in 1..n : HourOfPoint(points[i]) >= hour}
      first == IF from = {} THEN n + 1 ELSE CHOOSE i \in from : \A j \in from : i <= j
  IN IF first + 2 <= n THEN <<first, first + 1, first + 2>> ELSE <<n - 2, n - 1, n>>

C12_NeverPartial ==
  (res # NoCall /\ arg.fn = "parse_astronomy") =>
    /\ res.out.st = "ok"
    /\ \/ ParseClock12(res.out.sunrise).ok /\ ParseClock12(res.out.sunset).ok
       \/ res.out.sunrise = S_DASHES /\ res.out.sunset = S_DASHES
    /\ arg.doc # FullDoc => res.out.sunrise = S_DASHES /\ res.out.sunset = S_DASHES

\* the time of day, in seconds, that a 12-hour event text names; -1 for a text that
\* names none
EventSeconds(text) ==
  CASE text = <<48, 57, 58, 48, 48, 32, 65, 77>> -> 32400
    [] text = <<49, 49, 58, 48, 48, 32, 80, 77>> -> 82800
    [] text = <<48, 56, 58, 49, 48, 32, 80, 77>> -> 72600
    [] text = <<48, 54, 58, 52, 53, 32, 65, 77>> -> 24300
    [] text = <<49, 50, 58, 48, 48, 32, 65, 77>> -> 0
    [] text = <<49, 50, 58, 51, 48, 32, 80, 77>> -> 45000
    [] text = <<55, 58, 48, 53, 32, 65, 77>> -> 25500
    [] text = <<48, 51, 58, 48, 48, 32, 80, 77>> -> 54000
    [] OTHER -> 0 - 1

\* C13: time_until_event anchors the event to today: it gives none for a text that is
\* no 12-hour time and when the anchored time is earlier than now (no rollover to
\* the next day), else "Xh YYm" with the whole hours and the zero-padded whole
\* minutes of anchored time minus now
C13_TimeUntil ==
  (res # NoCall /\ arg.fn = "time_until_event") =>
    LET ev == EventSeconds(arg.event)
        \* whole seconds of (event - now); now is arg.sec plus a fraction if arg.sub
        left == IF arg.sub THEN ev - arg.sec - 1 ELSE ev - arg.sec
        earlier == ev < arg.sec \/ (ev = arg.sec /\ arg.sub)
    IN IF ev < 0 \/ earlier
       THEN ~res.out.some
       ELSE /\ res.out.some
            /\ res.out.text = Digits(left \div 3600) \o <<104, 32>>
                                \o (IF (left % 3600) \div 60 < 10 THEN <<48>> ELSE <<>>)
                                \o Digits((left % 3600) \div 60) \o <<109>>

\* "11:00 PM" at 10:00:00 gives "13h 00m"
C13_Witness ==
  /\ res # NoCall /\ arg.fn = "time_until_event"
  /\ arg.event = <<49, 49, 58, 48, 48, 32, 80, 77>> /\ arg.sec = 36000 /\ ~arg.sub
  /\ res.out.some /\ res.out.text = <<49, 51, 104, 32, 48, 48, 109>>

\* the texts of the content requests of the astronomy block of the render call, in order
AstroTexts ==
  LET reqs == res.out.reqs
      idx == {i \in 1..Len(reqs) : reqs[i].sec = "astro" /\ reqs[i].kind = "content"}
      RECURSIVE Pick(_)
      Pick(i) == IF i > Len(reqs) THEN <<>>
                 ELSE (IF i \in idx THEN <<reqs[i].text>> ELSE <<>>) \o Pick(i + 1)
  IN Pick(1)

\* the render call drew the astronomy block of the sample document
SampleAstroDrawn ==
  /\ res # NoCall /\ arg.fn = "render" /\ arg.doc = FullDoc
  /\ \E i \in 1..Len(res.out.reqs) : res.out.reqs[i].sec = "astro"

\* "Xh YYm to sunset" for the whole seconds left until 20:10:00
ToSunsetText(left) ==
  Digits(left \div 3600) \o <<104, 32>>
    \o (IF (left % 3600) \div 60 < 10 THEN <<48>> ELSE <<>>) \o Digits((left % 3600) \div 60)
    \o <<109, 32, 116, 111, 32, 115, 117, 110, 115, 101, 116>>

\* the astronomy block shows both times verbatim, and while sunset (20:10:00) is not
\* earlier than now the countdown line is its distance from now, "to sunset"
CountdownToSunset ==
  SampleAstroDrawn =>
    /\ Len(AstroTexts) >= 2
    /\ AstroTexts[1] = <<83, 117, 110, 114, 105, 115, 101, 58, 32, 48, 54, 58, 52, 53, 32, 65, 77>>
    /\ AstroTexts[2] = <<83, 117, 110, 115, 101, 116, 58, 32, 48, 56, 58, 49, 48, 32, 80, 77>>
    /\ ~(72600 < arg.sec \/ (72600 = arg.sec /\ arg.sub)) =>
         /\ Len(AstroTexts) = 3
         /\ AstroTexts[3] = ToSunsetText(IF arg.sub THEN 72600 - arg.sec - 1 ELSE 72600 - arg.sec)

\* C14 (as stated): the countdown line is sunset minus now, "to sunset", and at any
\* second of the minute 3:00 PM it reads "5h 10m to sunset"
C14_AnySecondOfMinute ==
  /\ CountdownToSunset
  /\ (SampleAstroDrawn /\ arg.sec \in 54000..54059) =>
       AstroTexts[3] = <<53, 104, 32, 49, 48, 109, 32, 116, 111, 32, 115, 117, 110, 115, 101, 116>>

\* C14 (amended): the countdown line is sunset minus now, "to sunset"; at 3:00:00 PM
\* exactly it reads "5h 10m to sunset", later in that minute "5h 09m to sunset"
C14_CountdownFloors ==
  /\ CountdownToSunset
  /\ (SampleAstroDrawn /\ arg.sec \in 54000..54059) =>
       AstroTexts[3] = (IF arg.sec = 54000 /\ ~arg.sub THEN <<53, 104, 32, 49, 48, 109, 32, 116, 111, 32, 115, 117, 110, 115, 101, 116>>
                        ELSE <<53, 104, 32, 48, 57, 109, 32, 116, 111, 32, 115, 117, 110, 115, 101, 116>>)

\* rendered at 3:00:00 PM exactly
C14_Witness ==
  /\ SampleAstroDrawn /\ arg.sec = 54000 /\ ~arg.sub
  /\ AstroTexts[3] = <<53, 104, 32, 49, 48, 109, 32, 116, 111, 32, 115, 117, 110, 115, 101, 116>>

\* C15: compute_dew_point never raises: for every pair of inputs, non-numeric texts,
\* "--", null and humidity <= 0 included, it returns a number or None, and None is
\* shown as "--"
C15_DewFailsSoftly ==
  (res # NoCall /\ arg.fn = "compute_dew_point") =>
    /\ res.out.st \in {"num", "none"}
    /\ res.out.st = "none" => DewText(res.out) = <<45, 45>>

\* C17: for numeric inputs with humidity in (0, 100] compute_dew_point returns a value
\* that is not above temp_f, and for humidity 0 it returns None
C17_DewNotAboveTemp ==
  (res # NoCall /\ arg.fn = "compute_dew_point"
     /\ arg.temp_f.t = "str" /\ ParseFloat(arg.temp_f.s).ok
     /\ arg.humidity.t = "str" /\ ParseFloat(arg.humidity.s).ok) =>
    LET h == ParseFloat(arg.humidity.s).v IN
    /\ (h > 0 /\ h <= 100) => (res.out.st = "num" /\ ~res.above)
    /\ h = 0 => res.out.st = "none"

\* calls of _sync_display made by this iteration's render pass
SyncCalls == IF Rendered THEN Len(frame[1].sync) ELSE 0

\* C16: in every iteration with a fetch attempt the render pass calls _sync_display
\* exactly once, whatever the terminal size, and in an iteration without a fetch
\* attempt never
C16_SyncEveryFetch ==
  pc \in {"poll", "crashed"} => SyncCalls = tick.fetches

\* C18: safe_addstr writes only when 0 <= row < rows, 0 <= col < cols and
\* cols - col - 1 > 0, and then the first min(len, cols - col - 1) characters at
\* (row, col), which end before the last column; every other call writes nothing
C18_NoOpOutsideGrid ==
  (res # NoCall /\ arg.fn = "safe_addstr") =>
    IF /\ 0 <= arg.row /\ arg.row < arg.max_y
       /\ 0 <= arg.col /\ arg.col < arg.max_x
       /\ arg.max_x - arg.col - 1 > 0
    THEN /\ Len(res.out) = 1
         /\ res.out[1].row = arg.row /\ res.out[1].col = arg.col
         /\ Len(res.out[1].text) = Min(arg.len, arg.max_x - arg.col - 1)
         /\ \A i \in 1..Len(res.out[1].text) : res.out[1].text[i] = 96 + i
         /\ arg.col + Len(res.out[1].text) - 1 < arg.max_x - 1
    ELSE res.out = <<>>

\* a text of 7 characters written at column 2 of 5 is cut to 2 characters
C18_Witness ==
  /\ res # NoCall /\ arg.fn = "safe_addstr"
  /\ arg.max_x = 5 /\ arg.col = 2 /\ arg.len = 7
  /\ Len(res.out) = 1 /\ res.out[1].text = <<97, 98>>

\* the render pass did not take an early return: it drew the divider under the
\* conditions block
PastConditions == Rendered /\ Drawn("div1")

\* the bottom border is requested, on the row below the last row requested before it,
\* and the row cursor ends on it, inside the window
BottomBorderClosesPanel ==
  LET reqs == frame[1].reqs
      bottom == {i \in 1..Len(reqs) : reqs[i].sec = "bottom"}
  IN /\ bottom # {}
     /\ frame[1].row <= frame[1].max_y - 1
     /\ \A i \in bottom :
          /\ reqs[i].row = frame[1].row
          /\ \A j \in 1..Len(reqs) : j \notin bottom => reqs[j].row < reqs[i].row
          /\ \E j \in 1..Len(reqs) : j \notin bottom /\ reqs[j].row = reqs[i].row - 1

\* C19: on a terminal of 2 rows or more every request of the render pass has
\* 0 <= row < height (heights 0 and 1 do get a request outside), and a pass that gets
\* past the conditions block always draws the bottom border, on the row below the
\* last row emitted, with the row cursor at most height - 1
C19_RowCursor ==
  Rendered =>
    /\ frame[1].max_y >= 2 =>
         \A i \in 1..Len(frame[1].reqs) :
           0 <= frame[1].reqs[i].row /\ frame[1].reqs[i].row < frame[1].max_y
    /\ frame[1].max_y < 2 =>
         \E i \in 1..Len(frame[1].reqs) : frame[1].reqs[i].row >= frame[1].max_y
    /\ PastConditions => BottomBorderClosesPanel

\* where the requests of a render pass go: section, row, column and kind of each,
\* the countdown text left out
Layout(reqs) ==
  {<<reqs[i].sec, reqs[i].row, reqs[i].col, reqs[i].kind>> :
     i \in {j \in 1..Len(reqs) :
              ~(reqs[j].sec = "astro" /\ reqs[j].kind = "content"
                /\ \E k \in 1..(j - 1) : reqs[k].sec = "astro" /\ reqs[k].row < reqs[j].row)}}

\* today's sunset (20:10:00) is earlier than the time of the render call
SunsetPassed == arg.sec > 72600 \/ (arg.sec = 72600 /\ arg.sub)

\* C20: once today's sunset has passed, the sunrise being earlier still, neither
\* countdown exists: the countdown row is drawn with its two borders and no text,
\* and every other request is on the row and column it has while a countdown is
\* shown; with no sunset in the snapshot the countdown is the one to sunrise
C20_CountdownGap ==
  /\ (SampleAstroDrawn /\ SunsetPassed) =>
       /\ Len(AstroTexts) = 2
       /\ Cardinality({i \in 1..Len(res.out.reqs) :
                         res.out.reqs[i].sec = "astro" /\ res.out.reqs[i].kind = "border"}) = 4
       /\ Layout(res.out.reqs)
            = Layout(render(arg.max_y, 66, arg.doc, [sec |-> 54000, sub |-> FALSE],
                            0, 1, DeriveInterval(arg.doc).v, TRUE).reqs)
  /\ (res # NoCall /\ arg.fn = "render" /\ arg.doc # FullDoc /\ arg.max_y >= 27
        /\ arg.sec = 0 /\ ~arg.sub) =>
       AstroTexts[3] = <<54, 104, 32, 52, 53, 109, 32, 116, 111, 32, 115, 117, 110, 114, 105, 115, 101>>

\* rendered at 23:00:00: both times shown, no countdown text
C20_Witness ==
  /\ SampleAstroDrawn /\ arg.sec = 82800 /\ arg.max_y = 30
  /\ Len(AstroTexts) = 2
  /\ res.out.st = "ret"
====
